---- MODULE Spec2Model ----
(***************************************************************************)
(* Model of ducklake_python.DucklakeClient (ducklake_client.py): the       *)
(* snapshot-versioned catalog relations it queries, the parquet file store *)
(* it decodes from, an external catalog writer, and the client's read path *)
(* (get_current_snapshot_id, list_schemas, list_tables, get_table_columns, *)
(* get_data_files, _resolve_path, _read_table, read_table).                *)
(***************************************************************************)
EXTENDS Integers, Sequences, FiniteSets, TLC

\* ------------------------------------------------------------------ bounds
\* highest snapshot id the external writer commits
MaxSnapshot == 4
\* rows the writer puts in one data file
MaxRows == 2

\* ------------------------------------------------------------- vocabulary
\* SQL NULL in an end_snapshot column, and Python None for snapshot_id
NULL == -1
None == -1
\* columns=None (read every column); the empty list, equally falsy, is not modelled
AllColumns == <<>>

SchemaNames == {"s1", "s2"}
TableNames == {"t"}
\* every table is created with these top-level columns, in column_order
TableColumnNames == <<"a", "b">>
\* the projections a caller asks for
ColumnArgs == {AllColumns, <<"b">>, <<"b", "a">>}

\* paths are sequences of components; an absolute one starts at the root
Root == "/"
DataRoot == <<Root, "lake">>
Cwd == <<Root, "cwd">>
NoDataPath == <<>>

VARIABLES
    snapshots,      \* ducklake_snapshot: set of snapshot_id
    schemas,        \* ducklake_schema rows
    tables,         \* ducklake_table rows
    columns,        \* ducklake_column rows
    data_files,     \* ducklake_data_file rows
    delete_files,   \* ducklake_delete_file rows
    files,          \* the file store: absolute path -> decoded content
    data_path,      \* DucklakeClient.data_path (NoDataPath when not configured)
    call            \* the read_table call in progress, its position and locals

vars == <<snapshots, schemas, tables, columns, data_files, delete_files, files,
          data_path, call>>

\* ------------------------------------------------------------ pure helpers
Max(S) == CHOOSE x \in S : \A y \in S : y <= x
Min(S) == CHOOSE x \in S : \A y \in S : x <= y
Range(s) == {s[i] : i \in 1..Len(s)}

RECURSIVE SortedSeq(_)
\* the ascending sequence of a finite set of integers
SortedSeq(S) == IF S = {} THEN <<>> ELSE <<Min(S)>> \o SortedSeq(S \ {Min(S)})

RECURSIVE Flatten(_)
\* concatenation of a sequence of sequences
Flatten(ss) == IF ss = <<>> THEN <<>> ELSE Head(ss) \o Flatten(Tail(ss))

\* (a validity test that forgets end_snapshot's upper bound: only open rows)
Visible_OpenOnly(row, snapshot_id) ==
    /\ snapshot_id >= row.begin_snapshot
    /\ row.end_snapshot = NULL

\* the WHERE clause every catalog query repeats:
\*   :snapshot_id >= begin_snapshot AND (:snapshot_id < end_snapshot OR end_snapshot IS NULL)
Visible(row, snapshot_id) ==
    /\ snapshot_id >= row.begin_snapshot
    /\ (row.end_snapshot = NULL \/ snapshot_id < row.end_snapshot)

\* pathlib: a / b (an absolute right operand replaces the left one)
IsAbsolute(p) == Len(p) > 0 /\ p[1] = Root
PathJoin(a, b) == IF IsAbsolute(b) THEN b ELSE a \o b
\* pathlib: Path.absolute() anchors a relative path at the working directory
Absolute(p) == IF IsAbsolute(p) THEN p ELSE Cwd \o p

\* ---------------------------------------------------------- external writer
\* The write path is not part of the client; it is the DuckLake writer the
\* tests drive through DuckDB.  Every commit adds one snapshot.
NextSnapshot == IF snapshots = {} THEN 0 ELSE Max(snapshots) + 1
CanCommit == NextSnapshot <= MaxSnapshot
Current == Max(snapshots)

FileName(kind, id) == <<kind, ToString(id)>>
\* where the writer stores a file of table tn in schema sn
Location(rel, sn, tn, name) ==
    IF rel THEN DataRoot \o <<sn, tn>> \o name ELSE <<Root, "ext">> \o name

\* rows of a new data file: row i carries a value unique in the lake and a
\* value that repeats across files
NewRows(id, n) == [i \in 1..n |-> [a |-> 10 * id + (i - 1), b |-> (i - 1) % 2]]

SchemaOf(t) == CHOOSE s \in schemas : s.schema_id = t.schema_id

\* ATTACH on a fresh catalog: snapshot 0 and the first schema
InitCatalog ==
    /\ snapshots = {}
    /\ snapshots' = {0}
    /\ schemas' = {[schema_id |-> 1, schema_name |-> "s1",
                    begin_snapshot |-> 0, end_snapshot |-> NULL]}
    /\ UNCHANGED <<tables, columns, data_files, delete_files, files, data_path, call>>

CreateSchema(n) ==
    /\ snapshots # {} /\ CanCommit
    /\ ~\E s \in schemas : s.schema_name = n /\ Visible(s, Current)
    /\ snapshots' = snapshots \cup {NextSnapshot}
    /\ schemas' = schemas \cup {[schema_id |-> Cardinality(schemas) + 1, schema_name |-> n,
                                 begin_snapshot |-> NextSnapshot, end_snapshot |-> NULL]}
    /\ UNCHANGED <<tables, columns, data_files, delete_files, files, data_path, call>>

DropSchema(s) ==
    /\ snapshots # {} /\ CanCommit
    /\ s \in schemas /\ Visible(s, Current)
    /\ ~\E t \in tables : t.schema_id = s.schema_id /\ Visible(t, Current)
    /\ snapshots' = snapshots \cup {NextSnapshot}
    /\ schemas' = (schemas \ {s}) \cup {[s EXCEPT !.end_snapshot = NextSnapshot]}
    /\ UNCHANGED <<tables, columns, data_files, delete_files, files, data_path, call>>

CreateTable(s, n) ==
    /\ snapshots # {} /\ CanCommit
    /\ s \in schemas /\ Visible(s, Current)
    /\ ~\E t \in tables : t.schema_id = s.schema_id /\ t.table_name = n /\ Visible(t, Current)
    /\ LET tid == Cardinality(tables) + 1 IN
        /\ tables' = tables \cup {[table_id |-> tid, table_name |-> n, schema_id |-> s.schema_id,
                                   begin_snapshot |-> NextSnapshot, end_snapshot |-> NULL]}
        /\ columns' = columns \cup
              {[column_id |-> 10 * tid + i, column_name |-> TableColumnNames[i],
                column_type |-> "int32", column_order |-> i, table_id |-> tid,
                parent_column |-> NULL,
                begin_snapshot |-> NextSnapshot, end_snapshot |-> NULL]
               : i \in 1..Len(TableColumnNames)}
    /\ snapshots' = snapshots \cup {NextSnapshot}
    /\ UNCHANGED <<schemas, data_files, delete_files, files, data_path, call>>

\* DROP TABLE ends the table row, its columns, its data files and their delete files
DropTable(t) ==
    /\ snapshots # {} /\ CanCommit
    /\ t \in tables /\ Visible(t, Current)
    /\ LET End(r) == IF r.end_snapshot = NULL THEN [r EXCEPT !.end_snapshot = NextSnapshot] ELSE r
           fids == {f.data_file_id : f \in {g \in data_files : g.table_id = t.table_id}}
       IN
        /\ tables' = (tables \ {t}) \cup {End(t)}
        /\ columns' = {IF c.table_id = t.table_id THEN End(c) ELSE c : c \in columns}
        /\ data_files' = {IF f.table_id = t.table_id THEN End(f) ELSE f : f \in data_files}
        /\ delete_files' = {IF d.data_file_id \in fids THEN End(d) ELSE d : d \in delete_files}
    /\ snapshots' = snapshots \cup {NextSnapshot}
    /\ UNCHANGED <<schemas, files, data_path, call>>

\* INSERT: one new data file of n rows, placed before or after the table's files
AddDataFile(t, n, rel, first) ==
    /\ snapshots # {} /\ CanCommit
    /\ t \in tables /\ Visible(t, Current)
    /\ first => \E g \in data_files : g.table_id = t.table_id
    /\ LET id == Cardinality(data_files) + 1
           name == FileName("data", id)
           orders == {f.file_order : f \in {g \in data_files : g.table_id = t.table_id}}
           ord == IF orders = {} THEN 0
                  ELSE IF first THEN Min(orders) - 1 ELSE Max(orders) + 1
           sn == SchemaOf(t).schema_name
       IN
        /\ data_files' = data_files \cup
              {[data_file_id |-> id,
                path |-> IF rel THEN name ELSE Location(FALSE, sn, t.table_name, name),
                path_is_relative |-> rel, table_id |-> t.table_id, file_order |-> ord,
                begin_snapshot |-> NextSnapshot, end_snapshot |-> NULL]}
        /\ files' = [p \in DOMAIN files \cup {Location(rel, sn, t.table_name, name)} |->
                       IF p \in DOMAIN files THEN files[p]
                       ELSE [rows |-> NewRows(id, n), pos |-> {}]]
    /\ snapshots' = snapshots \cup {NextSnapshot}
    /\ UNCHANGED <<schemas, tables, columns, delete_files, data_path, call>>

\* DELETE: a new delete file for data file f listing positions P; it replaces
\* the delete file that was active for f, if any
AddDeleteFile(f, P) ==
    /\ snapshots # {} /\ CanCommit
    /\ f \in data_files /\ Visible(f, Current)
    /\ LET id == Cardinality(delete_files) + 1
           name == FileName("delete", id)
           t == CHOOSE t \in tables : t.table_id = f.table_id
           sn == SchemaOf(t).schema_name
           rel == f.path_is_relative
       IN
        /\ delete_files' =
              {IF d.data_file_id = f.data_file_id /\ d.end_snapshot = NULL
               THEN [d EXCEPT !.end_snapshot = NextSnapshot] ELSE d : d \in delete_files}
              \cup {[delete_file_id |-> id, data_file_id |-> f.data_file_id,
                     path |-> IF rel THEN name ELSE Location(FALSE, sn, t.table_name, name),
                     begin_snapshot |-> NextSnapshot, end_snapshot |-> NULL]}
        /\ files' = [p \in DOMAIN files \cup {Location(rel, sn, t.table_name, name)} |->
                       IF p \in DOMAIN files THEN files[p]
                       ELSE [rows |-> <<>>, pos |-> P]]
    /\ snapshots' = snapshots \cup {NextSnapshot}
    /\ UNCHANGED <<schemas, tables, columns, data_files, data_path, call>>

\* compaction or truncation: a data file stops being part of its table
EndDataFile(f) ==
    /\ snapshots # {} /\ CanCommit
    /\ f \in data_files /\ Visible(f, Current)
    /\ data_files' = (data_files \ {f}) \cup {[f EXCEPT !.end_snapshot = NextSnapshot]}
    /\ delete_files' =
          {IF d.data_file_id = f.data_file_id /\ d.end_snapshot = NULL
           THEN [d EXCEPT !.end_snapshot = NextSnapshot] ELSE d : d \in delete_files}
    /\ snapshots' = snapshots \cup {NextSnapshot}
    /\ UNCHANGED <<schemas, tables, columns, files, data_path, call>>

\* the position lists a DELETE writes into a delete file, for data files of
\* MaxRows rows at positions 0..MaxRows-1: the first row; a position past the
\* end; the last row and a position past the end; every row and one more
DeleteSets == {{0}, {MaxRows}, {MaxRows - 1, MaxRows}, 0..MaxRows}

Write ==
    \/ InitCatalog
    \/ \E n \in SchemaNames : CreateSchema(n)
    \/ \E s \in schemas : DropSchema(s)
    \/ \E s \in schemas, n \in TableNames : CreateTable(s, n)
    \/ \E t \in tables : DropTable(t)
    \/ \E t \in tables, rel \in BOOLEAN, first \in BOOLEAN :
          AddDataFile(t, MaxRows, rel, first)
    \/ \E f \in data_files, P \in DeleteSets : AddDeleteFile(f, P)
    \/ \E f \in data_files : EndDataFile(f)

\* ------------------------------------------------------------------ client
\* what a call raised, or "ok"
NoSnapshots == "ValueError: No snapshots found in the catalog"
SchemaNotFound == "ValueError: Schema not found"
TableNotFound == "ValueError: Table not found in schema"
NoDataPathConfigured == "ValueError: Relative path provided but no data_path configured"
UnboundLocal == "UnboundLocalError: table_columns"
FileNotFound == "FileNotFoundError"
Raise(e) == [status |-> e, names |-> <<>>, rows |-> <<>>, opened |-> <<>>]

\* (the first snapshot in place of the last)
get_current_snapshot_id_Oldest == IF snapshots = {} THEN None ELSE Min(snapshots)

\* get_current_snapshot_id: the one row whose snapshot_id is the maximum, or
\* None when fetchone() finds no row and the method raises
get_current_snapshot_id == IF snapshots = {} THEN None ELSE Max(snapshots)

\* the `if snapshot_id is None: snapshot_id = self.get_current_snapshot_id()`
\* that opens every method
Resolve(snapshot_id) == IF snapshot_id = None THEN get_current_snapshot_id ELSE snapshot_id

\* (a WHERE clause whose end bound is inclusive: :snapshot_id <= end_snapshot)
list_schemas_EndInclusive(snapshot_id) ==
    {<<s.schema_id, s.schema_name>> :
        s \in {r \in schemas : /\ Resolve(snapshot_id) >= r.begin_snapshot
                               /\ (r.end_snapshot = NULL \/
                                   Resolve(snapshot_id) <= r.end_snapshot)}}

\* list_schemas: (schema_id, schema_name) of the schema rows visible at snapshot_id
list_schemas(snapshot_id) ==
    {<<s.schema_id, s.schema_name>> : s \in {r \in schemas : Visible(r, Resolve(snapshot_id))}}

\* (list_tables without the validity predicate)
list_tables_AnySnapshot(schema_id, snapshot_id) ==
    {<<t.table_id, t.table_name>> : t \in {r \in tables : r.schema_id = schema_id}}

\* list_tables: (table_id, table_name) of the rows of schema_id visible at snapshot_id
list_tables(schema_id, snapshot_id) ==
    {<<t.table_id, t.table_name>> :
        t \in {r \in tables : r.schema_id = schema_id /\ Visible(r, Resolve(snapshot_id))}}

\* a sort key is a sequence of integers, compared left to right
Before(k1, k2) ==
    \E i \in 1..Len(k1) : k1[i] < k2[i] /\ \A j \in 1..(i - 1) : k1[j] = k2[j]

RECURSIVE OrderBy(_)
\* ORDER BY: the rows of a set of <<key, row>> pairs, ascending in key
OrderBy(K) ==
    IF K = {} THEN <<>>
    ELSE LET k == CHOOSE x \in K : \A y \in K : ~Before(y[1], x[1])
         IN <<k[2]>> \o OrderBy(K \ {k})

\* get_table_columns: the top-level columns of table_id visible at snapshot_id,
\* ORDER BY column_order
get_table_columns(table_id, snapshot_id) ==
    OrderBy({<<<<c.column_order, c.column_id>>, c>> :
                c \in {r \in columns : /\ r.table_id = table_id
                                       /\ r.parent_column = NULL
                                       /\ Visible(r, Resolve(snapshot_id))}})

\* (the subquery without its WHERE clause)
ActiveDeleteFiles_AnySnapshot(snapshot_id) == delete_files

\* the subquery `del` of get_data_files: the delete files visible at snapshot_id
ActiveDeleteFiles(snapshot_id) == {d \in delete_files : Visible(d, snapshot_id)}

\* delete_file_path of a data file the LEFT JOIN matched with no delete file
NoPath == <<>>

\* (an ordering by data_file_id in place of file_order)
FileOrderKey_ById(r) == <<r.data_file_id, r.delete_file_id>>
\* ORDER BY data.file_order; rows of equal file_order in id order
FileOrderKey(r) == <<r.file_order, r.data_file_id, r.delete_file_id>>

\* get_data_files: data LEFT JOIN del ON data_file_id, WHERE the data file
\* belongs to table_id and is visible at snapshot_id, ORDER BY file_order
get_data_files(table_id, snapshot_id) ==
    LET sid == Resolve(snapshot_id)
        data == {f \in data_files : f.table_id = table_id /\ Visible(f, sid)}
        Matches(f) == {d \in ActiveDeleteFiles(sid) : d.data_file_id = f.data_file_id}
        Row(f, did, dpath) ==
            [file_order |-> f.file_order, data_file_id |-> f.data_file_id,
             delete_file_id |-> did, data_file_path |-> f.path,
             path_is_relative |-> f.path_is_relative, delete_file_path |-> dpath]
        joined == UNION {IF Matches(f) = {} THEN {Row(f, 0, NoPath)}
                         ELSE {Row(f, d.delete_file_id, d.path) : d \in Matches(f)}
                         : f \in data}
        sorted == OrderBy({<<FileOrderKey(r), r>> : r \in joined})
    IN [i \in 1..Len(sorted) |->
          [data_file_path |-> sorted[i].data_file_path,
           delete_file_path |-> sorted[i].delete_file_path,
           path_is_relative |-> sorted[i].path_is_relative]]

\* _resolve_path; Unresolved when it raises for want of a data_path
Unresolved == <<NoDataPathConfigured>>
\* (a join that leaves out the schema and table directories)
_resolve_path_NoTableDir(path, is_relative, table_name, schema_name) ==
    IF is_relative
    THEN IF data_path = NoDataPath THEN Unresolved
         ELSE Absolute(PathJoin(data_path, path))
    ELSE Absolute(path)
_resolve_path(path, is_relative, table_name, schema_name) ==
    IF is_relative
    THEN IF data_path = NoDataPath THEN Unresolved
         ELSE Absolute(PathJoin(PathJoin(PathJoin(data_path, <<schema_name>>),
                                         <<table_name>>), path))
    ELSE Absolute(path)

\* pq.read_table(path, columns=cols): the rows of the file, each reduced to
\* the requested columns in the requested order
ParquetRead(path, cols) ==
    LET names == IF cols = AllColumns THEN TableColumnNames ELSE cols
        stored == files[path].rows
    IN [names |-> names,
        rows |-> [i \in 1..Len(stored) |-> [j \in 1..Len(names) |-> stored[i][names[j]]]]]

\* _read_delete_row_ids: the 'pos' column of the delete file
_read_delete_row_ids(path) == files[path].pos

\* (positions taken as 1-based)
FilterDeleted_OneBased(rows, delete_row_ids) ==
    LET kept == SortedSeq({i \in 1..Len(rows) : i \notin delete_row_ids})
    IN [k \in 1..Len(kept) |-> rows[kept[k]]]

\* keep_mask = [i not in delete_row_ids for i in range(len(table))]; table.filter(keep_mask)
FilterDeleted(rows, delete_row_ids) ==
    LET kept == SortedSeq({i \in 0..(Len(rows) - 1) : i \notin delete_row_ids})
    IN [k \in 1..Len(kept) |-> rows[kept[k] + 1]]

\* one turn of the loop `for df in data_files` of _read_table
ReadDataFile(df, table_name, schema_name, cols) ==
    LET data == _resolve_path(df.data_file_path, df.path_is_relative, table_name, schema_name)
        del == _resolve_path(df.delete_file_path, df.path_is_relative, table_name, schema_name)
    IN IF data = Unresolved THEN Raise(NoDataPathConfigured)
       ELSE IF data \notin DOMAIN files THEN [Raise(FileNotFound) EXCEPT !.opened = <<data>>]
       ELSE LET table == ParquetRead(data, cols) IN
            IF df.delete_file_path = NoPath
            THEN [status |-> "ok", names |-> table.names, rows |-> table.rows,
                  opened |-> <<data>>]
            ELSE IF del = Unresolved
                 THEN [Raise(NoDataPathConfigured) EXCEPT !.opened = <<data>>]
            ELSE IF del \notin DOMAIN files
                 THEN [Raise(FileNotFound) EXCEPT !.opened = <<data, del>>]
            ELSE [status |-> "ok", names |-> table.names,
                  rows |-> FilterDeleted(table.rows, _read_delete_row_ids(del)),
                  opened |-> <<data, del>>]

\* (a loop that returns arrow_tables[0] whatever the number of files)
ReadDataFiles_FirstOnly(dfs, table_name, schema_name, cols) ==
    IF dfs = <<>> THEN [status |-> "ok", names |-> <<>>, rows |-> <<>>, opened |-> <<>>]
    ELSE ReadDataFile(Head(dfs), table_name, schema_name, cols)

RECURSIVE ReadDataFiles_SkipFailed(_, _, _, _)
\* (a loop that passes over a file it cannot read and goes on with the next)
ReadDataFiles_SkipFailed(dfs, table_name, schema_name, cols) ==
    IF dfs = <<>> THEN [status |-> "ok", names |-> <<>>, rows |-> <<>>, opened |-> <<>>]
    ELSE LET one == ReadDataFile(Head(dfs), table_name, schema_name, cols)
             rest == ReadDataFiles_SkipFailed(Tail(dfs), table_name, schema_name, cols)
         IN IF one.status # "ok" THEN [rest EXCEPT !.opened = one.opened \o rest.opened]
            ELSE [status |-> "ok", names |-> one.names, rows |-> one.rows \o rest.rows,
                  opened |-> one.opened \o rest.opened]

RECURSIVE ReadDataFiles(_, _, _, _)
\* the loop of _read_table and the concatenation after it: the first file
\* that raises ends the call
ReadDataFiles(dfs, table_name, schema_name, cols) ==
    IF dfs = <<>> THEN [status |-> "ok", names |-> <<>>, rows |-> <<>>, opened |-> <<>>]
    ELSE LET one == ReadDataFile(Head(dfs), table_name, schema_name, cols)
             rest == ReadDataFiles(Tail(dfs), table_name, schema_name, cols)
         IN IF one.status # "ok" THEN one
            ELSE IF rest.status # "ok"
                 THEN [rest EXCEPT !.opened = one.opened \o rest.opened]
            ELSE [status |-> "ok", names |-> one.names, rows |-> one.rows \o rest.rows,
                  opened |-> one.opened \o rest.opened]

\* the branch `if not data_files` of _read_table: with a projection the name
\* table_columns is read before it is bound
EmptyTable(table_id, snapshot_id, cols) ==
    IF cols # AllColumns THEN Raise(UnboundLocal)
    ELSE LET table_columns == get_table_columns(table_id, snapshot_id)
         IN [status |-> "ok",
             names |-> [i \in 1..Len(table_columns) |-> table_columns[i].column_name],
             rows |-> <<>>, opened |-> <<>>]

\* _read_table
_read_table(table_id, table_name, schema_name, snapshot_id, cols) ==
    LET sid == Resolve(snapshot_id)
        dfs == get_data_files(table_id, sid)
    IN IF sid = None THEN Raise(NoSnapshots)
       ELSE IF dfs = <<>> THEN EmptyTable(table_id, sid, cols)
       ELSE ReadDataFiles(dfs, table_name, schema_name, cols)

\* the two name lookups of read_table: the id of the first listed row that
\* carries the name, None when no row does
Lookup(listed, name) ==
    IF \E r \in listed : r[2] = name
    THEN (CHOOSE r \in listed : r[2] = name)[1]
    ELSE None

\* read_table
read_table(schema_name, table_name, snapshot_id, cols) ==
    LET sid == Resolve(snapshot_id)
        schema_id == Lookup(list_schemas(sid), schema_name)
        table_id == Lookup(list_tables(schema_id, sid), table_name)
    IN IF sid = None THEN Raise(NoSnapshots)
       ELSE IF schema_id = None THEN Raise(SchemaNotFound)
       ELSE IF table_id = None THEN Raise(TableNotFound)
       ELSE _read_table(table_id, table_name, schema_name, sid, cols)

Idle == [pc |-> "idle"]

\* one whole call of read_table: its arguments, the snapshot it read at (the
\* one given, or the current one for snapshot_id=None) and what it returned
\* or raised
ReadTable(schema_name, table_name, snapshot_id, cols) ==
    /\ call.pc = "idle"
    /\ call' = [pc |-> "done", schema_name |-> schema_name, table_name |-> table_name,
                columns |-> cols, snapshot |-> Resolve(snapshot_id),
                result |-> read_table(schema_name, table_name, snapshot_id, cols)]
    /\ UNCHANGED <<snapshots, schemas, tables, columns, data_files, delete_files, files,
                   data_path>>

Read ==
    \E sn \in SchemaNames, tn \in TableNames, sid \in snapshots \cup {None}, cols \in ColumnArgs :
        ReadTable(sn, tn, sid, cols)

Init ==
    /\ snapshots = {}
    /\ schemas = {}
    /\ tables = {}
    /\ columns = {}
    /\ data_files = {}
    /\ delete_files = {}
    /\ files = <<>>
    /\ data_path \in {NoDataPath, DataRoot}
    /\ call = Idle

Next == Write \/ Read

Spec == Init /\ [][Next]_vars


\* ------------------------------------------------- read_table, query by query
\* The same call with the catalog free to move between its catalog queries:
\* every query opens its own connection, and a writer may commit in between.

\* the snapshot_id read_table hands to list_schemas, list_tables and
\* _read_table: its local, reassigned at the start when the argument was None
\* (the argument itself, handed on as it came)
Passed_Argument(c) == c.snapshot_id
Passed(c) == c.snapshot

\* one more current-snapshot query when the callee is handed None
Resolutions(c, passed) == c.resolved + (IF passed = None THEN 1 ELSE 0)

Finish(c, r) == [c EXCEPT !.pc = "done", !.result = r]

\* read_table entered: `if snapshot_id is None: snapshot_id = self.get_current_snapshot_id()`
Begin(schema_name, table_name, snapshot_id, cols) ==
    /\ call.pc = "idle"
    /\ LET c == [pc |-> "list_schemas", schema_name |-> schema_name, table_name |-> table_name,
                 columns |-> cols, snapshot_id |-> snapshot_id,
                 snapshot |-> Resolve(snapshot_id),
                 resolved |-> IF snapshot_id = None THEN 1 ELSE 0,
                 queries |-> <<>>, schema_id |-> None, table_id |-> None, inner |-> None,
                 dfs |-> <<>>, result |-> Raise("")]
       IN call' = IF c.snapshot = None THEN Finish(c, Raise(NoSnapshots)) ELSE c
    /\ UNCHANGED <<snapshots, schemas, tables, columns, data_files, delete_files, files,
                   data_path>>

\* `schemas = self.list_schemas(snapshot_id)` and the search for schema_name
FindSchema ==
    /\ call.pc = "list_schemas"
    /\ LET p == Passed(call)
           schema_id == Lookup(list_schemas(p), call.schema_name)
           c == [call EXCEPT !.queries = Append(@, <<"list_schemas", Resolve(p)>>),
                             !.resolved = Resolutions(call, p),
                             !.schema_id = schema_id]
       IN call' = IF schema_id = None THEN Finish(c, Raise(SchemaNotFound))
                  ELSE [c EXCEPT !.pc = "list_tables"]
    /\ UNCHANGED <<snapshots, schemas, tables, columns, data_files, delete_files, files,
                   data_path>>

\* `tables = self.list_tables(schema_id, snapshot_id)` and the search for table_name
FindTable ==
    /\ call.pc = "list_tables"
    /\ LET p == Passed(call)
           table_id == Lookup(list_tables(call.schema_id, p), call.table_name)
           c == [call EXCEPT !.queries = Append(@, <<"list_tables", Resolve(p)>>),
                             !.resolved = Resolutions(call, p),
                             !.table_id = table_id]
       IN call' = IF table_id = None THEN Finish(c, Raise(TableNotFound))
                  ELSE [c EXCEPT !.pc = "get_data_files"]
    /\ UNCHANGED <<snapshots, schemas, tables, columns, data_files, delete_files, files,
                   data_path>>

\* _read_table entered: its own `if snapshot_id is None`, then
\* `data_files = self.get_data_files(table_id, snapshot_id)` and the test
\* `if not data_files`
ListDataFiles ==
    /\ call.pc = "get_data_files"
    /\ LET p == Passed(call)
           inner == Resolve(p)
           dfs == get_data_files(call.table_id, inner)
           c == [call EXCEPT !.queries = Append(@, <<"get_data_files", inner>>),
                             !.resolved = Resolutions(call, p),
                             !.inner = inner, !.dfs = dfs]
       IN call' = IF dfs # <<>> THEN [c EXCEPT !.pc = "read_files"]
                  ELSE IF call.columns # AllColumns THEN Finish(c, Raise(UnboundLocal))
                  ELSE [c EXCEPT !.pc = "get_table_columns"]
    /\ UNCHANGED <<snapshots, schemas, tables, columns, data_files, delete_files, files,
                   data_path>>

\* `table_columns = self.get_table_columns(table_id, snapshot_id)` and the
\* empty table built from it
ListColumns ==
    /\ call.pc = "get_table_columns"
    /\ call' = Finish([call EXCEPT !.queries = Append(@, <<"get_table_columns", call.inner>>)],
                      EmptyTable(call.table_id, call.inner, call.columns))
    /\ UNCHANGED <<snapshots, schemas, tables, columns, data_files, delete_files, files,
                   data_path>>

\* the loop over data_files and the concatenation
ReadFiles ==
    /\ call.pc = "read_files"
    /\ call' = Finish(call, ReadDataFiles(call.dfs, call.table_name, call.schema_name,
                                           call.columns))
    /\ UNCHANGED <<snapshots, schemas, tables, columns, data_files, delete_files, files,
                   data_path>>

\* the commits that run beside a call
WriteBeside ==
    \/ InitCatalog
    \/ \E s \in schemas, n \in TableNames : CreateTable(s, n)
    \/ \E t \in tables : DropTable(t)
    \/ \E t \in tables, rel \in BOOLEAN : AddDataFile(t, MaxRows, rel, FALSE)
    \/ \E f \in data_files : AddDeleteFile(f, {0})

NextConc ==
    \/ WriteBeside
    \/ \E sn \in SchemaNames, tn \in TableNames, sid \in snapshots \cup {None},
          cols \in ColumnArgs : Begin(sn, tn, sid, cols)
    \/ FindSchema
    \/ FindTable
    \/ ListDataFiles
    \/ ListColumns
    \/ ReadFiles

SpecConc == Init /\ [][NextConc]_vars

\* ------------------------------------------------- storage that loses files
\* The catalog and the file store are separate systems: a file the catalog
\* lists may be gone from storage when the client opens it, and pq.read_table
\* then raises.

\* a stored file is removed from storage; the catalog rows that name it stay.
\* Storage is followed up to the call: what it loses after the call has
\* returned, the call has not met.
LoseFile(p) ==
    /\ call.pc = "idle"
    /\ p \in DOMAIN files
    /\ files' = [q \in DOMAIN files \ {p} |-> files[q]]
    /\ UNCHANGED <<snapshots, schemas, tables, columns, data_files, delete_files,
                   data_path, call>>

Lose == \E p \in DOMAIN files : LoseFile(p)

NextFaults == WriteBeside \/ Lose \/ Read

SpecFaults == Init /\ [][NextFaults]_vars

\* ------------------------------------------------------ every method, called
\* The catalog methods called on their own, beside read_table query by query.
\* Each opens with `if snapshot_id is None: snapshot_id =
\* self.get_current_snapshot_id()`, which raises on a catalog without
\* snapshots, and then runs its query.

\* the ids a caller passes for schema_id and table_id
Ids == 1..2

\* the methods that run one query once they have a snapshot
Methods == {"list_schemas", "list_tables", "get_table_columns", "get_data_files"}

\* what the method's query returns at snapshot sid
Returned(method, id, sid) ==
    CASE method = "list_schemas" -> list_schemas(sid)
      [] method = "list_tables" -> list_tables(id, sid)
      [] method = "get_table_columns" -> get_table_columns(id, sid)
      [] method = "get_data_files" -> get_data_files(id, sid)

\* a finished call of a method: the snapshot it ran at, the current-snapshot
\* lookups it made, the other catalog queries it issued, its outcome
Called(method, snapshot_id, sid, queries, result) ==
    [pc |-> "done", method |-> method, snapshot_id |-> snapshot_id, snapshot |-> sid,
     resolved |-> IF snapshot_id = None THEN 1 ELSE 0, queries |-> queries, result |-> result]

\* get_current_snapshot_id called on its own
CallCurrentSnapshot ==
    /\ call.pc = "idle"
    /\ LET sid == get_current_snapshot_id
       IN call' = Called("get_current_snapshot_id", None, sid, <<>>,
                         IF sid = None THEN Raise(NoSnapshots)
                         ELSE [status |-> "ok", value |-> sid])
    /\ UNCHANGED <<snapshots, schemas, tables, columns, data_files, delete_files, files,
                   data_path>>

\* list_schemas, list_tables, get_table_columns or get_data_files called on its own
CallMethod(method, id, snapshot_id) ==
    /\ call.pc = "idle"
    /\ LET sid == Resolve(snapshot_id)
       IN call' = IF sid = None
                  THEN Called(method, snapshot_id, sid, <<>>, Raise(NoSnapshots))
                  ELSE Called(method, snapshot_id, sid, <<<<method, sid>>>>,
                              [status |-> "ok", value |-> Returned(method, id, sid)])
    /\ UNCHANGED <<snapshots, schemas, tables, columns, data_files, delete_files, files,
                   data_path>>

\* _read_table called on its own: get_data_files, then get_table_columns when
\* the table has no data file and no projection is asked for
CallReadTableById(table_id, table_name, schema_name, snapshot_id, cols) ==
    /\ call.pc = "idle"
    /\ LET sid == Resolve(snapshot_id)
           dfs == get_data_files(table_id, sid)
           queries == IF sid = None THEN <<>>
                      ELSE <<<<"get_data_files", sid>>>> \o
                           (IF dfs = <<>> /\ cols = AllColumns
                            THEN <<<<"get_table_columns", sid>>>> ELSE <<>>)
       IN call' = Called("_read_table", snapshot_id, sid, queries,
                         _read_table(table_id, table_name, schema_name, snapshot_id, cols))
    /\ UNCHANGED <<snapshots, schemas, tables, columns, data_files, delete_files, files,
                   data_path>>

NextOps ==
    \/ WriteBeside
    \/ CallCurrentSnapshot
    \/ \E m \in Methods, id \in Ids, sid \in snapshots \cup {None} : CallMethod(m, id, sid)
    \/ \E id \in Ids, tn \in TableNames, sn \in SchemaNames, sid \in snapshots \cup {None},
          cols \in ColumnArgs : CallReadTableById(id, tn, sn, sid, cols)
    \/ \E sn \in SchemaNames, tn \in TableNames, sid \in snapshots \cup {None},
          cols \in ColumnArgs : Begin(sn, tn, sid, cols)
    \/ FindSchema
    \/ FindTable
    \/ ListDataFiles
    \/ ListColumns
    \/ ReadFiles

SpecOps == Init /\ [][NextOps]_vars

\* ------------------------------------------- a delete-file relation at large
\* ducklake_delete_file(data_file_id, path, begin_snapshot, end_snapshot)
\* carries no key: nothing in the relation or in the client keeps two of its
\* rows for one data file from covering the same snapshot.

\* a delete file for data file f listing positions P, added while the delete
\* files f already has stay in force
AddDeleteFileBeside(f, P) ==
    /\ snapshots # {} /\ CanCommit
    /\ f \in data_files /\ Visible(f, Current)
    /\ \E d \in delete_files : d.data_file_id = f.data_file_id /\ Visible(d, Current)
    /\ LET id == Cardinality(delete_files) + 1
           name == FileName("delete", id)
           t == CHOOSE t \in tables : t.table_id = f.table_id
           sn == SchemaOf(t).schema_name
           rel == f.path_is_relative
       IN
        /\ delete_files' = delete_files \cup
              {[delete_file_id |-> id, data_file_id |-> f.data_file_id,
                path |-> IF rel THEN name ELSE Location(FALSE, sn, t.table_name, name),
                begin_snapshot |-> NextSnapshot, end_snapshot |-> NULL]}
        /\ files' = [p \in DOMAIN files \cup {Location(rel, sn, t.table_name, name)} |->
                       IF p \in DOMAIN files THEN files[p]
                       ELSE [rows |-> <<>>, pos |-> P]]
    /\ snapshots' = snapshots \cup {NextSnapshot}
    /\ UNCHANGED <<schemas, tables, columns, data_files, data_path, call>>

NextOverlap ==
    \/ WriteBeside
    \/ \E f \in data_files, P \in DeleteSets : AddDeleteFileBeside(f, P)
    \/ Read

SpecOverlap == Init /\ [][NextOverlap]_vars

\* ================================================================= claims
\* What the claims speak of, stated on the catalog relations and the file
\* store directly, without the client's queries.

\* row is valid at snapshot S: begin inclusive, end exclusive, NULL still open
Covers(row, S) ==
    /\ row.begin_snapshot <= S
    /\ (row.end_snapshot = NULL \/ S < row.end_snapshot)

\* a finished call that had a snapshot to read at, and that snapshot
Done == call.pc = "done" /\ call.snapshot # None
ReadSnapshot == call.snapshot

SchemasNamed(sn, S) == {s \in schemas : s.schema_name = sn /\ Covers(s, S)}
TablesNamed(sn, tn, S) ==
    {t \in tables : /\ t.table_name = tn /\ Covers(t, S)
                    /\ \E s \in SchemasNamed(sn, S) : s.schema_id = t.schema_id}
\* the table a finished call named (the writer keeps visible names unique)
CalledTables == TablesNamed(call.schema_name, call.table_name, ReadSnapshot)

FilesOf(t, S) == {f \in data_files : f.table_id = t.table_id /\ Covers(f, S)}
DeletesOf(f, S) == {d \in delete_files : d.data_file_id = f.data_file_id /\ Covers(d, S)}

\* where the writer stored a data file and a delete file of it
StoredData(f) ==
    LET t == CHOOSE t \in tables : t.table_id = f.table_id
    IN IF f.path_is_relative
       THEN DataRoot \o <<SchemaOf(t).schema_name, t.table_name>> \o f.path
       ELSE f.path
StoredDelete(f, d) ==
    LET t == CHOOSE t \in tables : t.table_id = f.table_id
    IN IF f.path_is_relative
       THEN DataRoot \o <<SchemaOf(t).schema_name, t.table_name>> \o d.path
       ELSE d.path

\* a stored row as the caller sees it under a projection
NamesOf(cols) == IF cols = AllColumns THEN TableColumnNames ELSE cols
Restrict(row, cols) == [j \in 1..Len(NamesOf(cols)) |-> row[NamesOf(cols)[j]]]

\* the rows of f that survive the positions P, in their original order: the
\* k-th survivor is the position with k-1 surviving positions below it
Survivors(f, P, cols) ==
    LET stored == files[StoredData(f)].rows
        kept == (0..(Len(stored) - 1)) \ P
        Nth(k) == CHOOSE p \in kept : Cardinality({q \in kept : q < p}) = k - 1
    IN [k \in 1..Cardinality(kept) |-> Restrict(stored[Nth(k) + 1], cols)]

DeletedPositions(f, S) == UNION {files[StoredDelete(f, d)].pos : d \in DeletesOf(f, S)}

\* the files of t at S in ascending file_order (the writer keeps it unique per table)
FilesInOrder(t, S) ==
    LET F == FilesOf(t, S)
    IN [k \in 1..Cardinality(F) |->
          CHOOSE f \in F : Cardinality({g \in F : g.file_order < f.file_order}) = k - 1]

Count(seq, v) == Cardinality({i \in 1..Len(seq) : seq[i] = v})

\* what the client lists for data file f
EntriesOf(f, listed) == {i \in 1..Len(listed) : listed[i].data_file_path = f.path}

\* ---------------------------------------------------------------------- C1
\* C1: snapshot isolation.  What a call of read_table at snapshot S returned
\* or raised is what read_table(..., snapshot_id=S) returns after any sequence
\* of later commits (each adds a schema, a table, a data file or a delete
\* file, or ends rows, at its own later snapshot): the finished call may have
\* been made while S was current, the catalog has moved on since.
C1_SnapshotIsolation ==
    Done => call.result =
              read_table(call.schema_name, call.table_name, call.snapshot, call.columns)

\* a read at a snapshot the catalog has moved past, one of whose rows a later
\* commit ended, returned rows the read at the current snapshot no longer does
C1_Witness ==
    /\ Done /\ call.snapshot < Max(snapshots)
    /\ call.result.status = "ok" /\ call.result.rows # <<>>
    /\ call.result.rows #
          read_table(call.schema_name, call.table_name, None, call.columns).rows
    /\ \E t \in CalledTables : \E f \in FilesOf(t, ReadSnapshot) :
          \/ f.end_snapshot > call.snapshot
          \/ \E d \in DeletesOf(f, ReadSnapshot) : d.end_snapshot > call.snapshot

\* ---------------------------------------------------------------------- C3
\* the entries the client lists for the called table, and what one turn of
\* the read loop makes of entry i
Listed(t) == get_data_files(t.table_id, ReadSnapshot)
PerFile(t, i) == ReadDataFile(Listed(t)[i], call.table_name, call.schema_name, call.columns)
Resolvable(f) == f.path_is_relative => data_path # NoDataPath

\* C3: delete semantics.  For a data file of the called table with rows at
\* positions 0..N-1 and an active delete file listing positions P, the
\* per-file result is exactly the rows at positions {0..N-1} \ P in their
\* original order; positions >= N in P change nothing and raise nothing.
\* When the file is the table's only one, that is what the call returned.
C3_DeleteSemantics ==
    Done => \A t \in CalledTables : \A f \in FilesOf(t, ReadSnapshot) :
        (DeletesOf(f, ReadSnapshot) # {} /\ Resolvable(f)) =>
            LET expected == Survivors(f, DeletedPositions(f, ReadSnapshot), call.columns)
            IN /\ EntriesOf(f, Listed(t)) # {}
               /\ \A i \in EntriesOf(f, Listed(t)) :
                     PerFile(t, i).status = "ok" /\ PerFile(t, i).rows = expected
               /\ FilesOf(t, ReadSnapshot) = {f} =>
                     call.result.status = "ok" /\ call.result.rows = expected

\* a call on a one-file table whose delete file lists the last row and a
\* position past the end returned all rows but the last
C3_Witness ==
    /\ Done /\ call.result.status = "ok" /\ Len(call.result.rows) = MaxRows - 1
    /\ \E t \in CalledTables : \E f \in FilesOf(t, ReadSnapshot) :
          /\ FilesOf(t, ReadSnapshot) = {f}
          /\ DeletedPositions(f, ReadSnapshot) = {MaxRows - 1, MaxRows}
          /\ Len(files[StoredData(f)].rows) = MaxRows

\* ---------------------------------------------------------------------- C4
\* every stored row of the visible files of t, as a (file, position) slot
Slots(t) ==
    UNION {{<<f, i>> : i \in 1..Len(files[StoredData(f)].rows)} : f \in FilesOf(t, ReadSnapshot)}
SlotRow(x) == Restrict(files[StoredData(x[1])].rows[x[2]], call.columns)
\* how many stored rows equal v under the call's projection
StoredCopies(t, v) == Cardinality({x \in Slots(t) : SlotRow(x) = v})
NoDeletes(t) == \A f \in FilesOf(t, ReadSnapshot) : DeletesOf(f, ReadSnapshot) = {}

\* C4: round trip.  When the called table has one or more data files visible
\* at the read snapshot and none of them has an active delete file, the rows
\* the call returned are, as a multiset, the rows stored in those files: each
\* row value occurs in the result as often as in the files together.
C4_RoundTrip ==
    (Done /\ call.result.status = "ok") => \A t \in CalledTables :
        (FilesOf(t, ReadSnapshot) # {} /\ NoDeletes(t)) =>
            /\ Len(call.result.rows) = Cardinality(Slots(t))
            /\ \A v \in Range(call.result.rows) \cup {SlotRow(x) : x \in Slots(t)} :
                  Count(call.result.rows, v) = StoredCopies(t, v)

\* a call on a table of several files without deletes, under a projection
\* that makes rows of different files equal, returned them all
C4_Witness ==
    /\ Done /\ call.result.status = "ok" /\ call.columns = <<"b">>
    /\ \E t \in CalledTables :
          /\ Cardinality(FilesOf(t, ReadSnapshot)) > 1 /\ NoDeletes(t)
          /\ \E v \in Range(call.result.rows) : Count(call.result.rows, v) > 1

\* ---------------------------------------------------------------------- C5
\* the rows of the k-th file in file_order that survive its deletes
SurvivorsOfNth(t, k) ==
    LET f == FilesInOrder(t, ReadSnapshot)[k]
    IN Survivors(f, DeletedPositions(f, ReadSnapshot), call.columns)

\* C5: concatenation order.  When the called table has several data files
\* visible at the read snapshot, the rows returned are the per-file
\* post-delete sequences one after the other in ascending file_order.
C5_ConcatenationOrder ==
    (Done /\ call.result.status = "ok") => \A t \in CalledTables :
        Cardinality(FilesOf(t, ReadSnapshot)) > 1 =>
            call.result.rows =
                Flatten([k \in 1..Cardinality(FilesOf(t, ReadSnapshot)) |-> SurvivorsOfNth(t, k)])

\* a call on a table whose later-written file has the lower file_order and
\* one of whose files lost rows to a delete file
C5_Witness ==
    /\ Done /\ call.result.status = "ok" /\ call.result.rows # <<>>
    /\ \E t \in CalledTables : \E f, g \in FilesOf(t, ReadSnapshot) :
          /\ f.data_file_id < g.data_file_id /\ g.file_order < f.file_order
          /\ DeletesOf(f, ReadSnapshot) # {}
          /\ SurvivorsOfNth(t, 1) # <<>>

\* ---------------------------------------------------------------------- C6
\* C6: the delete-file join is made at the read snapshot.  Each visible data
\* file of the called table is listed; it is listed with a delete file only
\* if that delete file's validity interval covers the snapshot, and with no
\* delete file when no delete file of it covers the snapshot.
C6_DeleteJoinAtSnapshot ==
    Done => \A t \in CalledTables : \A f \in FilesOf(t, ReadSnapshot) :
        /\ EntriesOf(f, Listed(t)) # {}
        /\ \A i \in EntriesOf(f, Listed(t)) :
              IF DeletesOf(f, ReadSnapshot) = {}
              THEN Listed(t)[i].delete_file_path = NoPath
              ELSE \E d \in DeletesOf(f, ReadSnapshot) : Listed(t)[i].delete_file_path = d.path

\* a call at a snapshot where a data file has a delete file that is valid at
\* later snapshots only opened the data file alone and returned all its rows
C6_Witness ==
    /\ Done /\ call.result.status = "ok"
    /\ \E t \in CalledTables : \E f \in FilesOf(t, ReadSnapshot) :
          /\ FilesOf(t, ReadSnapshot) = {f}
          /\ DeletesOf(f, ReadSnapshot) = {}
          /\ \E d \in delete_files :
                d.data_file_id = f.data_file_id /\ d.begin_snapshot > ReadSnapshot
          /\ Len(call.result.opened) = 1
          /\ Len(call.result.rows) = MaxRows

\* ---------------------------------------------------------------------- C7
\* C7: name resolution failure.  A call whose schema name no schema visible
\* at the read snapshot carries raised the schema-not-found error; a call
\* whose schema is visible but in which no table of the given name is
\* visible at the read snapshot raised the table-not-found error; neither
\* returned a table.  Rows valid only at other snapshots do not count.
C7_NameResolutionFailure ==
    Done =>
        /\ SchemasNamed(call.schema_name, ReadSnapshot) = {} =>
              call.result = Raise(SchemaNotFound)
        /\ (SchemasNamed(call.schema_name, ReadSnapshot) # {} /\ CalledTables = {}) =>
              call.result = Raise(TableNotFound)

\* a call that raised table-not-found for a name the schema carries at
\* another snapshot
C7_Witness ==
    /\ Done /\ call.result.status = TableNotFound
    /\ \E s \in SchemasNamed(call.schema_name, ReadSnapshot) : \E t \in tables :
          t.schema_id = s.schema_id /\ t.table_name = call.table_name

\* ---------------------------------------------------------------------- C8
\* C8: empty table.  A call on a table that is visible at the read snapshot
\* and has no data file visible there returned zero rows and raised nothing,
\* whatever the projection.
C8_EmptyTableZeroRows ==
    Done => \A t \in CalledTables :
        FilesOf(t, ReadSnapshot) = {} =>
            call.result.status = "ok" /\ call.result.rows = <<>>

\* ---------------------------------------------------------------------- C9
\* the unprojected read of the same table at the same snapshot
Unprojected == read_table(call.schema_name, call.table_name, ReadSnapshot, AllColumns)
\* a row of the unprojected read reduced to the columns cols
RestrictRead(names, row, cols) ==
    [j \in 1..Len(cols) |-> row[CHOOSE k \in 1..Len(names) : names[k] = cols[j]]]

\* C9: projection correctness.  A call with columns=[c1..cn] returned exactly
\* the columns c1..cn in that order, and its rows are the rows of the
\* unprojected read of the same table and snapshot reduced to those columns.
C9_ProjectionCorrect ==
    (Done /\ call.columns # AllColumns /\ Unprojected.status = "ok") =>
        /\ call.result.status = "ok"
        /\ call.result.names = call.columns
        /\ call.result.rows =
              [i \in 1..Len(Unprojected.rows) |->
                  RestrictRead(Unprojected.names, Unprojected.rows[i], call.columns)]

\* ---------------------------------------------------------------------- C10
\* data_root / schema_name / table_name / path for a relative file, the
\* path itself otherwise
ExpectedPath(is_relative, path) ==
    IF is_relative THEN data_path \o <<call.schema_name, call.table_name>> \o path ELSE path
\* the paths a read opens for data file f: the data file, then its delete file
ExpectedPaths(f) ==
    <<ExpectedPath(f.path_is_relative, f.path)>> \o
    (IF DeletesOf(f, ReadSnapshot) = {} THEN <<>>
     ELSE <<ExpectedPath(f.path_is_relative,
                         (CHOOSE d \in DeletesOf(f, ReadSnapshot) : TRUE).path)>>)

\* C10: path resolution.  The paths a call opened are, file by file, the
\* path data_root / schema_name / table_name / path when the file's
\* path_is_relative flag is set and the file's own path when it is not, and
\* a call that returned opened them all; a
\* call that met a relative path on a client without a data root raised the
\* configuration error; a call that met files with absolute paths only
\* returned, data root or not.
C10_PathResolution ==
    Done => \A t \in CalledTables :
        LET F == FilesInOrder(t, ReadSnapshot)
            relative == \E f \in FilesOf(t, ReadSnapshot) : f.path_is_relative
            expected == Flatten([k \in 1..Len(F) |-> ExpectedPaths(F[k])])
            opened == call.result.opened
        IN F # <<>> =>
            /\ Len(opened) <= Len(expected) /\ opened = SubSeq(expected, 1, Len(opened))
            /\ call.result.status = "ok" => opened = expected
            /\ (relative /\ data_path = NoDataPath) =>
                  call.result.status = NoDataPathConfigured
            /\ ~relative => call.result.status = "ok"

\* a call on a table holding a relative and an absolute file returned after
\* opening one path under the data root and one outside it
C10_Witness ==
    /\ Done /\ call.result.status = "ok" /\ data_path = DataRoot
    /\ \E i, j \in 1..Len(call.result.opened) :
          /\ SubSeq(call.result.opened[i], 1, Len(DataRoot)) = DataRoot
          /\ SubSeq(call.result.opened[j], 1, Len(DataRoot)) # DataRoot

\* ---------------------------------------------------------------------- C2
\* C2: one snapshot per call.  In a call made with snapshot_id=None the
\* current snapshot is looked up exactly once, at the start; the schema
\* lookup, the table lookup, the data-file listing and the column lookup all
\* query at that snapshot, whatever a writer commits between them; and what
\* the call returns is the read at that one snapshot (on a catalog without
\* snapshots the one lookup fails and no other query is made).
C2_OneSnapshotPerCall ==
    (call.pc # "idle" /\ call.snapshot_id = None) =>
        /\ call.resolved = 1
        /\ \A i \in 1..Len(call.queries) : call.queries[i][2] = call.snapshot
        /\ (call.pc = "done" /\ call.snapshot # None) =>
              call.result =
                  read_table(call.schema_name, call.table_name, call.snapshot, call.columns)

\* a call with snapshot_id=None ran its three catalog queries while a writer
\* committed more than once, and returned rows the current snapshot does not
C2_Witness ==
    /\ call.pc = "done" /\ call.snapshot_id = None /\ call.result.status = "ok"
    /\ Len(call.queries) = 3
    /\ Max(snapshots) > call.snapshot + 1
    /\ call.result.rows #
          read_table(call.schema_name, call.table_name, None, call.columns).rows
\* ---------------------------------------------------------------------- C11
\* one file access of a read: the flag and the path the catalog holds for it
Access(f, path) == [is_relative |-> f.path_is_relative, path |-> path]
\* the accesses a read makes for data file f: the data file, then its delete file
AccessesOf(f) ==
    <<Access(f, f.path)>> \o
    (IF DeletesOf(f, ReadSnapshot) = {} THEN <<>>
     ELSE <<Access(f, (CHOOSE d \in DeletesOf(f, ReadSnapshot) : TRUE).path)>>)
\* every access of a read of table t, in file_order
Accesses(t) ==
    LET F == FilesInOrder(t, ReadSnapshot)
    IN Flatten([k \in 1..Len(F) |-> AccessesOf(F[k])])
\* the access cannot be resolved, or resolves to a path storage does not hold
CannotResolve(a) == a.is_relative /\ data_path = NoDataPath
CannotDecode(a) == ~CannotResolve(a) /\ ExpectedPath(a.is_relative, a.path) \notin DOMAIN files
Fails(a) == CannotResolve(a) \/ CannotDecode(a)

\* C11: all-or-nothing materialization.  When the path of a data file or
\* delete file of the called table, at whatever position in file_order, cannot
\* be resolved or its file cannot be decoded, the call of read_table ended with
\* the error of the first such file: it returned no rows (not those of the
\* files read before the failure, not those of the files after it), and it
\* opened each path up to the failing one once and none after.
C11_AllOrNothing ==
    Done => \A t \in CalledTables :
        LET acc == Accesses(t)
            bad == {i \in 1..Len(acc) : Fails(acc[i])}
        IN bad # {} =>
            LET k == Min(bad)
                last == IF CannotResolve(acc[k]) THEN k - 1 ELSE k
            IN /\ call.result.status =
                     (IF CannotResolve(acc[k]) THEN NoDataPathConfigured ELSE FileNotFound)
               /\ call.result.rows = <<>> /\ call.result.names = <<>>
               /\ call.result.opened =
                     [i \in 1..last |-> ExpectedPath(acc[i].is_relative, acc[i].path)]

\* a call raised for a file missing from storage after it had read two other
\* files, and returned none of their rows
C11_Witness ==
    /\ Done /\ call.result.status = FileNotFound /\ call.result.rows = <<>>
    /\ Len(call.result.opened) > 2
    /\ \A i \in 1..Len(call.result.opened) :
          (call.result.opened[i] \in DOMAIN files) <=> (i < Len(call.result.opened))
    /\ \E i \in 1..(Len(call.result.opened) - 1) :
          files[call.result.opened[i]].rows # <<>>
\* ---------------------------------------------------------------------- C12
\* a call made with snapshot_id=None, or of get_current_snapshot_id itself
AsksCurrent == call.pc # "idle" /\ call.snapshot_id = None

\* C12: the current snapshot.  get_current_snapshot_id returns a snapshot_id
\* of the snapshot relation that no other snapshot_id exceeds, whatever
\* snapshots have been added, and raises when the relation is empty; a call of
\* any method with snapshot_id=None that found the relation empty has raised
\* that error and issued no catalog query besides the lookup, and one that
\* found a snapshot ran at a snapshot of the relation.
C12_CurrentSnapshot ==
    /\ IF snapshots = {} THEN get_current_snapshot_id = None
       ELSE /\ get_current_snapshot_id \in snapshots
            /\ \A s \in snapshots : s <= get_current_snapshot_id
    /\ AsksCurrent =>
          /\ call.resolved = 1
          /\ IF call.snapshot = None
             THEN /\ call.pc = "done"
                  /\ call.result = Raise(NoSnapshots)
                  /\ call.queries = <<>>
             ELSE /\ call.snapshot \in snapshots
                  /\ call.pc = "done" => call.result.status # NoSnapshots

\* a call of get_data_files with snapshot_id=None raised on the catalog
\* without snapshots, before the first commits made snapshot 1 the current one
C12_Witness ==
    /\ AsksCurrent /\ call.snapshot = None /\ call.result.status = NoSnapshots
    /\ "method" \in DOMAIN call /\ call.method = "get_data_files"
    /\ Cardinality(snapshots) > 1 /\ get_current_snapshot_id = Cardinality(snapshots) - 1
\* ---------------------------------------------------------------------- C13
\* the (id, name) pairs of the rows of a relation that the validity rule
\* admits at S
SchemaRowsAt(S) == {<<s.schema_id, s.schema_name>> : s \in {r \in schemas : Covers(r, S)}}
TableRowsAt(id, S) ==
    {<<t.table_id, t.table_name>> : t \in {r \in tables : r.schema_id = id /\ Covers(r, S)}}

\* C13: validity rule.  At every snapshot S, list_schemas(S) returns exactly
\* the schema rows with begin_snapshot <= S and (end_snapshot null or
\* S < end_snapshot), and list_tables(schema_id, S) exactly the table rows of
\* schema_id that satisfy the same rule: begin inclusive, end exclusive, and
\* no table of another schema.
C13_ValidityRule ==
    \A S \in snapshots :
        /\ list_schemas(S) = SchemaRowsAt(S)
        /\ \A id \in Ids \cup {s.schema_id : s \in schemas} :
              list_tables(id, S) = TableRowsAt(id, S)

\* two schemas, the second one listed from the snapshot it began at, each
\* hold a table at S; one table began at S and is not listed the snapshot
\* before, the other ends at S + 1 and is not listed there; neither is listed
\* under the other's schema
C13_Witness ==
    \E S \in snapshots : \E t, u \in tables :
        /\ t.schema_id # u.schema_id
        /\ u.begin_snapshot = S /\ t.end_snapshot = S + 1
        /\ list_tables(t.schema_id, S) = {<<t.table_id, t.table_name>>}
        /\ list_tables(u.schema_id, S) = {<<u.table_id, u.table_name>>}
        /\ list_tables(u.schema_id, S - 1) = {}
        /\ list_tables(t.schema_id, S + 1) = {}
        /\ Cardinality(list_schemas(S)) = 2
        /\ \E s \in schemas :
              /\ s.begin_snapshot > 0
              /\ <<s.schema_id, s.schema_name>> \in list_schemas(s.begin_snapshot)
              /\ <<s.schema_id, s.schema_name>> \notin list_schemas(s.begin_snapshot - 1)
\* ---------------------------------------------------------------------- C14
\* C14: each data file once.  For the called table at the read snapshot,
\* get_data_files lists every visible data file exactly once (so with at most
\* one delete file) and nothing else, and a call that returned holds no row
\* value more often than the table's data files store it, whatever rows the
\* delete-file relation holds for a data file.
C14_EachDataFileOnce ==
    Done => \A t \in CalledTables :
        /\ Len(Listed(t)) = Cardinality(FilesOf(t, ReadSnapshot))
        /\ \A f \in FilesOf(t, ReadSnapshot) : Cardinality(EntriesOf(f, Listed(t))) = 1
        /\ call.result.status = "ok" =>
              /\ Len(call.result.rows) <= Cardinality(Slots(t))
              /\ \A v \in Range(call.result.rows) :
                    Count(call.result.rows, v) <= StoredCopies(t, v)
====
